---- MODULE Spec2Model ----
(***************************************************************************)
(* A model of grl::AtracsysFusionTrackVrepPlugin                           *)
(* (include/grl/vrep/AtracsysFusionTrackVrepPlugin.hpp).                   *)
(*                                                                         *)
(* Threads:                                                                *)
(*   - the driver thread running update()            (actions U_...)       *)
(*   - the simulation thread calling run_one()       (actions T_...)       *)
(*   - the plugin-message thread calling construct(), add_object(),        *)
(*     remove_geometry(), clear_objects(), start/stop/save/clear           *)
(*     recording and destruct()                      (the other actions)   *)
(*   - one thread per save_recording() call running the save lambda        *)
(*                                                                         *)
(* A member function that is one critical section of m_frameAccess with    *)
(* nothing blocking inside is one action, enabled when the mutex is free.  *)
(* run_one() and update() are split at every point where another thread    *)
(* can observe or change what they use.                                    *)
(***************************************************************************)
EXTENDS Integers, Sequences, FiniteSets, TLC

\* ------------------------------------------------------------------ bounds

\* frames the device delivers before its blocking receive stops returning
MaxFrames == 3
\* save_recording() calls (each starts a thread kept in m_saveRecordingThreads)
MaxSaves == 2
\* ------------------------------------------------------ values and helpers

\* a null std::unique_ptr / std::shared_ptr
NULL == 0

\* the two heap frames made by makeFramePtr()
FrameSlots == {1, 2}

\* std::map helpers: a map is a function on its key set
EmptyMap == [k \in {} |-> <<0, 0, 0>>]

MapPut(m, k, v) == [x \in (DOMAIN m) \cup {k} |-> IF x = k THEN v ELSE m[x]]

MapErase(m, k) == [x \in (DOMAIN m) \ {k} |-> m[x]]

\* ---- rigid transforms, abstracted to the affine maps x -> s*x + t on Z_3
\* (a non-commutative group of six elements; <<1, 0>> is the identity)
Transforms == {<<s, t>> : s \in {1, 2}, t \in {0, 1, 2}}

\* Eigen::Affine3f::inverse(): 1 and 2 are their own inverses modulo 3
TransformInverse(T) == <<T[1], (3 - ((T[1] * T[2]) % 3)) % 3>>

TransformCompose(A, B) == <<(A[1] * B[1]) % 3, (A[1] * B[2] + A[2]) % 3>>

\* sensor::ftkMarkerToAffine3f(marker): the marker's pose as a transform
ftkMarkerToAffine3f(marker) == marker.pose

Marker(g, T) == [geometryId |-> g, pose |-> T]

\* ---- the V-REP scene: object name -> handle (simGetObjectHandle gives -1
\* for a name the scene does not hold)
SceneNames == {"OpticalTrackerBase#0", "Fiducial#55", "Fiducial#22"}

simGetObjectHandle(name) ==
    CASE name = "OpticalTrackerBase#0" -> 10
      [] name = "Fiducial#55" -> 11
      [] name = "Fiducial#22" -> 12
      [] OTHER -> -1

\* grl::vrep::getHandle: throws when the handle is -1
getHandle(name) ==
    LET h == simGetObjectHandle(name)
    IN  [ok |-> h # -1, val |-> h]

\* ---- boost::lexical_cast<int>(std::string); a string is a sequence of
\* one-character strings
DigitVal(c) ==
    CASE c = "0" -> 0 [] c = "1" -> 1 [] c = "2" -> 2 [] c = "3" -> 3
      [] c = "4" -> 4 [] c = "5" -> 5 [] c = "6" -> 6 [] c = "7" -> 7
      [] c = "8" -> 8 [] c = "9" -> 9 [] OTHER -> -1

RECURSIVE DigitsValue(_, _)
\* the value of a digit string, most significant digit first; -1 when a
\* character is no digit
DigitsValue(s, acc) ==
    IF s = <<>> THEN acc
    ELSE IF DigitVal(Head(s)) = -1 THEN -1
    ELSE DigitsValue(Tail(s), 10 * acc + DigitVal(Head(s)))

lexical_cast_int(s) ==
    LET signed == s # <<>> /\ Head(s) \in {"-", "+"}
        body   == IF signed THEN Tail(s) ELSE s
        v      == IF body = <<>> THEN -1 ELSE DigitsValue(body, 0)
    IN  [ok  |-> v # -1,
         val |-> IF v = -1 THEN 0
                 ELSE IF signed /\ Head(s) = "-" THEN 0 - v ELSE v]

\* ---- MotionConfigParams: <<ObjectToMove, FrameInWhichToMoveObject,
\* ObjectBeingMeasured, GeometryID>>
ObjectToMove == 1
FrameInWhichToMoveObject == 2
ObjectBeingMeasured == 3
GeometryID == 4

\* the value a std::map's operator[] inserts for an absent key
DefaultTuple == <<0, 0, 0>>

\* MotionConfigParamsAddConfig: the set of outcomes [map, thrown].
\*   IDToHandleConfig[lexical_cast<int>(id)] = make_tuple(getHandle..x3)
\* The language leaves the order of the two sides of the assignment open
\* (before C++17): when a getHandle throws, operator[] may or may not have
\* inserted a default entry for an absent key already.
MotionConfigParamsAddConfig(motionConfig, IDToHandleConfig) ==
    LET id == lexical_cast_int(motionConfig[GeometryID])
        h1 == getHandle(motionConfig[ObjectToMove])
        h2 == getHandle(motionConfig[FrameInWhichToMoveObject])
        h3 == getHandle(motionConfig[ObjectBeingMeasured])
        handlesOk == h1.ok /\ h2.ok /\ h3.ok
    IN  IF id.ok /\ handlesOk
        THEN {[map |-> MapPut(IDToHandleConfig, id.val, <<h1.val, h2.val, h3.val>>),
               thrown |-> "none"]}
        ELSE IF ~id.ok
        THEN {[map |-> IDToHandleConfig, thrown |-> "bad_lexical_cast"]}
        ELSE {[map |-> IDToHandleConfig, thrown |-> "runtime_error"],
              [map |-> IF id.val \in DOMAIN IDToHandleConfig
                       THEN IDToHandleConfig
                       ELSE MapPut(IDToHandleConfig, id.val, DefaultTuple),
               thrown |-> "runtime_error"]}

RECURSIVE MotionConfigParamsToVrepHandleConfigMapFrom(_, _)
\* the loop of MotionConfigParamsToVrepHandleConfigMap over a local map: the
\* set of outcomes [map, thrown]; a throw ends the loop
MotionConfigParamsToVrepHandleConfigMapFrom(configurations, acc) ==
    IF configurations = <<>> THEN {[map |-> acc, thrown |-> "none"]}
    ELSE UNION { IF r.thrown = "none"
                 THEN MotionConfigParamsToVrepHandleConfigMapFrom(Tail(configurations), r.map)
                 ELSE {r}
                 : r \in MotionConfigParamsAddConfig(Head(configurations), acc) }

MotionConfigParamsToVrepHandleConfigMap(configurations) ==
    MotionConfigParamsToVrepHandleConfigMapFrom(configurations, EmptyMap)

\* ---- Params: [OpticalTrackerBase, MotionConfigParamsVector]
emptyDefaultParams ==
    [OpticalTrackerBase |-> "OpticalTrackerBase#0",
     MotionConfigParamsVector |-> <<>>]

moveTrackerParams ==
    [OpticalTrackerBase |-> "OpticalTrackerBase#0",
     MotionConfigParamsVector |->
        << <<"Fiducial#22", "OpticalTrackerBase#0", "Fiducial#22", <<"2", "2">> >> >>]

moveBoneParams ==
    [OpticalTrackerBase |-> "OpticalTrackerBase#0",
     MotionConfigParamsVector |->
        << <<"OpticalTrackerBase#0", "Fiducial#55", "Fiducial#55", <<"5", "5">> >> >>]

\* a parameter set naming an object the scene does not hold
missingObjectParams ==
    [OpticalTrackerBase |-> "OpticalTrackerBase#0",
     MotionConfigParamsVector |->
        << <<"Bone#0", "OpticalTrackerBase#0", "Fiducial#22", <<"2", "2">> >> >>]

\* a parameter set that moves a fiducial within the frame of another fiducial
\* while measuring the first
moveFiducialParams ==
    [OpticalTrackerBase |-> "OpticalTrackerBase#0",
     MotionConfigParamsVector |->
        << <<"Fiducial#22", "Fiducial#55", "Fiducial#22", <<"2", "2">> >> >>]

\* the Params a plugin is constructed with
ParamChoices ==
    {emptyDefaultParams, moveTrackerParams, moveBoneParams, missingObjectParams,
     moveFiducialParams}

\* the MotionConfigParams passed to add_object
AddChoices ==
    { <<"OpticalTrackerBase#0", "Fiducial#55", "Fiducial#55", <<"5", "5">> >>,
      <<"Fiducial#22", "OpticalTrackerBase#0", "Fiducial#22", <<"2", "2">> >>,
      <<"Fiducial#22", "Fiducial#55", "Fiducial#22", <<"2", "2">> >>,
      <<"Bone#0", "OpticalTrackerBase#0", "Fiducial#22", <<"7">> >>,
      <<"Fiducial#55", "OpticalTrackerBase#0", "Fiducial#55", <<"x", "7">> >> }

\* the strings passed to remove_geometry(std::string)
RemoveChoices == { <<"5", "5">>, <<"2", "2">>, <<"7">>, <<"9">>, <<"x">> }

\* ---- what the device delivers: the n-th frame received
DeviceMarkers(n) ==
    CASE n % 3 = 1 -> << Marker(55, <<1, 1>>) >>
      [] n % 3 = 2 -> << Marker(22, <<1, 2>>), Marker(55, <<2, 2>>) >>
      [] OTHER     -> << Marker(99, <<1, 1>>), Marker(22, <<2, 0>>), Marker(55, <<1, 2>>) >>

\* a Frame: its sequence number (0: as made by makeFramePtr, never received
\* into), its markers, and whether a receive is part-way through writing it
EmptyFrame == [seq |-> 0, Markers |-> <<>>, partial |-> FALSE]

\* grl::toFlatBuffer(builder, tracker, frame): the frame's data written into
\* the builder; the offset returned is the place of the new message in it
SerializeFrame(frame) == [seq |-> frame.seq, Markers |-> frame.Markers]

toFlatBuffer(fbb, frame) ==
    [fbb |-> Append(fbb, SerializeFrame(frame)), offset |-> Len(fbb) + 1]

\* flatbuffers::FlatBufferBuilder + message vector made by make_shared: no
\* message yet
EmptyBuffer == [fbb |-> <<>>, msgs |-> <<>>]

\* what the save lambda writes: CreateVector(*msgs), CreateLog..., Finish
\* with the file identifier; each offset is resolved in its builder
FinishedLog(buf) ==
    [identifier |-> "LogKUKAiiwaFusionTrackIdentifier",
     states |-> [k \in 1..Len(buf.msgs) |-> buf.fbb[buf.msgs[k]]]]

\* flatbuffers Verify...Buffer: the identifier is right and every message
\* of the container is one written into the builder
VerifyLogKUKAiiwaFusionTrackBuffer(log) ==
    /\ log.identifier = "LogKUKAiiwaFusionTrackIdentifier"
    /\ \A k \in 1..Len(log.states) : log.states[k].seq >= 1

\* ------------------------------------------------------------------- state

VARIABLES
    params_,                    \* the Params given to the constructor
    m_opticalTrackerBase,       \* int, -1 until initHandles()
    allHandlesSet,              \* bool
    m_geometryIDToVrepMotionConfigMap,
    opticalTrackerP,            \* TRUE when the unique_ptr holds a device
    isConnectionEstablished_,   \* std::atomic<bool>
    m_shouldStop,               \* std::atomic<bool>
    m_isRecording,              \* std::atomic<bool>, not initialised
    exceptionPtr,               \* "null" or the exception captured
    m_frameAccess,              \* the mutex: "free" or the thread holding it
    m_receivedFrame,            \* NULL or a frame slot
    m_nextState,                \* NULL or a frame slot
    frames,                     \* the heap frames: slot -> Frame
    m_logFileBufferBuilderP,    \* NULL or a buffer of heap
    m_KUKAiiwaFusionTrackMessageBufferP,
    heap,                       \* live recording buffers: id -> [fbb, msgs]
    m_driverThread,             \* "null", "running" or "joined"
    m_saveRecordingThreads,     \* the save threads, in the order started
    pcU,                        \* where update() is
    recvSlot,                   \* the frame receive() was given
    recvCount,                  \* frames the device has delivered
    pcT,                        \* where run_one() is
    tickFrame,                  \* the frame run_one()'s loop ranges over
    tickIdx,                    \* the marker run_one()'s loop is at
    tickLog,                    \* what run_one() did per marker, this call
    tickResult,                 \* how the last run_one() ended
    tickSnap,                   \* what run_one() saw when it took the mutex
    pcD,                        \* where destruct() is
    thrown,                     \* what the last plugin-message call threw
    aborted,                    \* "none", or why the process was ended
    connectOutcome,             \* how update()'s try block ended
    recvFailed,                 \* a receive() call has thrown
    specMap,                    \* the ConfigMap the add/remove/clear calls describe
    session,                    \* frames appended since the active buffer was begun
    appended,                   \* frames appended to a recording buffer and not cleared
    discarded,                  \* frames whose record clear_recording() destroyed
    startCalled                 \* start_recording() was the last start/stop call

cfgVars == <<params_, m_opticalTrackerBase, allHandlesSet,
             m_geometryIDToVrepMotionConfigMap, specMap>>

devVars == <<opticalTrackerP, isConnectionEstablished_, exceptionPtr,
             connectOutcome, recvFailed>>

frameVars == <<m_receivedFrame, m_nextState, frames, recvSlot, recvCount>>

recVars == <<m_logFileBufferBuilderP, m_KUKAiiwaFusionTrackMessageBufferP,
             heap, m_saveRecordingThreads, session, appended,
             discarded>>

flagVars == <<m_isRecording, startCalled>>

tickVars == <<pcT, tickFrame, tickIdx, tickLog, tickResult, tickSnap>>

vars == <<cfgVars, devVars, frameVars, recVars, tickVars, m_shouldStop,
          flagVars, m_frameAccess, m_driverThread, pcU, pcD, thrown,
          aborted>>

NoSnap == [map |-> EmptyMap, frame |-> NULL, content |-> EmptyFrame]

\* the constructor: isConnectionEstablished_(false), m_shouldStop(false), the
\* member initialisers, and nothing for m_isRecording
Init ==
    /\ params_ \in ParamChoices
    /\ m_opticalTrackerBase = -1
    /\ allHandlesSet = FALSE
    /\ m_geometryIDToVrepMotionConfigMap = EmptyMap
    /\ opticalTrackerP = FALSE
    /\ isConnectionEstablished_ = FALSE
    /\ m_shouldStop = FALSE
    /\ m_isRecording \in BOOLEAN
    /\ exceptionPtr = "null"
    /\ m_frameAccess = "free"
    /\ m_receivedFrame = NULL
    /\ m_nextState = NULL
    /\ frames = [s \in FrameSlots |-> EmptyFrame]
    /\ m_logFileBufferBuilderP = NULL
    /\ m_KUKAiiwaFusionTrackMessageBufferP = NULL
    /\ heap = [b \in {} |-> EmptyBuffer]
    /\ m_driverThread = "null"
    /\ m_saveRecordingThreads = <<>>
    /\ pcU = "not_started"
    /\ recvSlot = NULL
    /\ recvCount = 0
    /\ pcT = "idle"
    /\ tickFrame = NULL
    /\ tickIdx = 0
    /\ tickLog = <<>>
    /\ tickResult = "none"
    /\ tickSnap = NoSnap
    /\ pcD = "idle"
    /\ thrown = "none"
    /\ aborted = "none"
    /\ connectOutcome = "pending"
    /\ recvFailed = FALSE
    /\ specMap = EmptyMap
    /\ session = <<>>
    /\ appended = {}
    /\ discarded = {}
    /\ startCalled = FALSE

\* the process runs and the plugin has not begun to be torn down
Alive == aborted = "none"

\* a plugin-message call may be made
Callable == Alive /\ pcD = "idle"

\* ------------------------------------------------ construct / initHandles

\* construct(): initHandles(), then the driver thread is started. When a
\* getHandle throws, construct() is left by the exception: allHandlesSet
\* stays false and no thread exists.
Construct ==
    /\ Callable
    /\ m_driverThread = "null" /\ ~allHandlesSet /\ pcU = "not_started"
    /\ LET base == getHandle(params_.OpticalTrackerBase)
       IN  IF ~base.ok
           THEN /\ thrown' = "runtime_error"
                /\ UNCHANGED <<m_opticalTrackerBase, allHandlesSet, specMap,
                               m_geometryIDToVrepMotionConfigMap, m_driverThread, pcU>>
           ELSE \E r \in MotionConfigParamsToVrepHandleConfigMap(params_.MotionConfigParamsVector) :
                /\ m_opticalTrackerBase' = base.val
                /\ thrown' = r.thrown
                /\ IF r.thrown = "none"
                   THEN /\ m_geometryIDToVrepMotionConfigMap' = r.map
                        /\ specMap' = r.map
                        /\ allHandlesSet' = TRUE
                        /\ m_driverThread' = "running"
                        /\ pcU' = "try_lock"
                   ELSE UNCHANGED <<allHandlesSet, specMap, m_geometryIDToVrepMotionConfigMap,
                                    m_driverThread, pcU>>
    /\ UNCHANGED <<params_, devVars, frameVars, recVars, tickVars, m_shouldStop,
                   flagVars, m_frameAccess, pcD, aborted>>

\* ------------------------------------------------- update(): connecting

\* try { std::lock_guard lock(m_frameAccess);
U_TryLock ==
    /\ Alive /\ pcU = "try_lock" /\ m_frameAccess = "free"
    /\ m_frameAccess' = "update"
    /\ pcU' = "open"
    /\ UNCHANGED <<cfgVars, devVars, frameVars, recVars, tickVars, m_shouldStop,
                   flagVars, m_driverThread, pcD, thrown, aborted>>

\* the connecting block with isConnectionEstablished_ = true moved up to the
\* line after the device is opened
U_Open_FlagEarly ==
    /\ Alive /\ pcU = "open"
    /\ \/ /\ opticalTrackerP' = TRUE
          /\ isConnectionEstablished_' = TRUE
          /\ pcU' = "make_frames"
          /\ UNCHANGED <<m_frameAccess, connectOutcome>>
       \/ /\ connectOutcome' = "open_failed"
          /\ m_frameAccess' = "free"
          /\ pcU' = "catch"
          /\ UNCHANGED <<opticalTrackerP, isConnectionEstablished_>>
    /\ UNCHANGED <<cfgVars, exceptionPtr, recvFailed,
                   frameVars, recVars, tickVars, m_shouldStop, flagVars,
                   m_driverThread, pcD, thrown, aborted>>

\* opticalTrackerP.reset(new FusionTrack(params)): the device opens, or the
\* constructor throws and the lock_guard is unwound
U_Open ==
    /\ Alive /\ pcU = "open"
    /\ \/ /\ opticalTrackerP' = TRUE
          /\ pcU' = "make_frames"
          /\ UNCHANGED <<m_frameAccess, connectOutcome>>
       \/ /\ connectOutcome' = "open_failed"
          /\ m_frameAccess' = "free"
          /\ pcU' = "catch"
          /\ UNCHANGED opticalTrackerP
    /\ UNCHANGED <<cfgVars, isConnectionEstablished_, exceptionPtr, recvFailed,
                   frameVars, recVars, tickVars, m_shouldStop, flagVars,
                   m_driverThread, pcD, thrown, aborted>>

\* m_receivedFrame = makeFramePtr(); m_nextState = makeFramePtr(); either
\* allocation may throw
U_MakeFrames ==
    /\ Alive /\ pcU = "make_frames"
    /\ \/ /\ m_receivedFrame' = 1
          /\ m_nextState' = 2
          /\ pcU' = "established"
          /\ UNCHANGED <<m_frameAccess, connectOutcome>>
       \/ /\ connectOutcome' = "alloc_failed"
          /\ \/ UNCHANGED m_receivedFrame
             \/ m_receivedFrame' = 1
          /\ UNCHANGED m_nextState
          /\ m_frameAccess' = "free"
          /\ pcU' = "catch"
    /\ UNCHANGED <<cfgVars, opticalTrackerP, isConnectionEstablished_, exceptionPtr,
                   recvFailed, frames, recvSlot, recvCount, recVars, tickVars,
                   m_shouldStop, flagVars, m_driverThread, pcD, thrown, aborted>>

\* isConnectionEstablished_ = true; } the try block ends, the mutex is released
U_Established ==
    /\ Alive /\ pcU = "established"
    /\ isConnectionEstablished_' = TRUE
    /\ connectOutcome' = "ok"
    /\ m_frameAccess' = "free"
    /\ pcU' = "loop"
    /\ UNCHANGED <<cfgVars, opticalTrackerP, exceptionPtr, recvFailed, frameVars,
                   recVars, tickVars, m_shouldStop, flagVars, m_driverThread,
                   pcD, thrown, aborted>>

\* catch (...) { exceptionPtr = std::current_exception();
U_Catch ==
    /\ Alive /\ pcU = "catch"
    /\ exceptionPtr' = connectOutcome
    /\ pcU' = "catch_stop"
    /\ UNCHANGED <<cfgVars, opticalTrackerP, isConnectionEstablished_, connectOutcome,
                   recvFailed, frameVars, recVars, tickVars, m_shouldStop,
                   flagVars, m_frameAccess, m_driverThread, pcD, thrown, aborted>>

\* the catch block without its m_shouldStop = true
U_CatchStop_NoStop ==
    /\ Alive /\ pcU = "catch_stop"
    /\ pcU' = "loop"
    /\ UNCHANGED <<cfgVars, devVars, frameVars, recVars, tickVars, flagVars,
                   m_shouldStop, m_frameAccess, m_driverThread, pcD, thrown, aborted>>

\* m_shouldStop = true; }
U_CatchStop ==
    /\ Alive /\ pcU = "catch_stop"
    /\ m_shouldStop' = TRUE
    /\ pcU' = "loop"
    /\ UNCHANGED <<cfgVars, devVars, frameVars, recVars, tickVars, flagVars,
                   m_frameAccess, m_driverThread, pcD, thrown, aborted>>

\* ------------------------------------------------ update(): the main loop

\* the loop test that never sees the stop request
LoopContinues_Always == TRUE

\* while (!m_shouldStop): the value of the loop condition
LoopContinues == ~m_shouldStop

\* while (!m_shouldStop); the device has MaxFrames frames to deliver, an
\* iteration is entered while one is left
U_LoopTest ==
    /\ Alive /\ pcU = "loop"
    /\ LoopContinues => recvCount < MaxFrames
    /\ pcU' = IF LoopContinues THEN "receive" ELSE "done"
    /\ UNCHANGED <<cfgVars, devVars, frameVars, recVars, tickVars, m_shouldStop,
                   flagVars, m_frameAccess, m_driverThread, pcD, thrown, aborted>>

\* receive() handed the frame run_one() reads
ReceiveTarget_Current == m_receivedFrame

\* the frame opticalTrackerP->receive(*m_nextState) is given to write into
ReceiveTarget == m_nextState

\* opticalTrackerP->receive(*m_nextState) is entered, no mutex held: the
\* device starts to write into the frame it was given
U_ReceiveBegin ==
    /\ Alive /\ pcU = "receive"
    /\ IF opticalTrackerP /\ ReceiveTarget # NULL
       THEN /\ recvSlot' = ReceiveTarget
            /\ frames' = [frames EXCEPT ![ReceiveTarget].partial = TRUE]
            /\ pcU' = "receiving"
            /\ UNCHANGED aborted
       ELSE \* a null device or frame is dereferenced
            /\ aborted' = "null_dereference"
            /\ UNCHANGED <<recvSlot, frames, pcU>>
    /\ UNCHANGED <<cfgVars, devVars, m_receivedFrame, m_nextState, recvCount, recVars,
                   tickVars, m_shouldStop, flagVars, m_frameAccess,
                   m_driverThread, pcD, thrown>>

\* receive() returns: the frame is complete
U_ReceiveEnd ==
    /\ Alive /\ pcU = "receiving"
    /\ recvCount' = recvCount + 1
    /\ frames' = [frames EXCEPT ![recvSlot] =
                     [seq |-> recvCount + 1, Markers |-> DeviceMarkers(recvCount + 1),
                      partial |-> FALSE]]
    /\ pcU' = "lock"
    /\ UNCHANGED <<cfgVars, devVars, m_receivedFrame, m_nextState, recvSlot, recVars,
                   tickVars, m_shouldStop, flagVars, m_frameAccess,
                   m_driverThread, pcD, thrown, aborted>>

\* receive() throws: the call is outside the try block, nothing in update()
\* catches, the exception leaves the thread function and std::terminate
\* ends the process
U_ReceiveThrow ==
    /\ Alive /\ pcU = "receiving"
    /\ recvFailed' = TRUE
    /\ aborted' = "terminate"
    /\ pcU' = "escaped"
    /\ UNCHANGED <<cfgVars, opticalTrackerP, isConnectionEstablished_, exceptionPtr,
                   connectOutcome, frameVars, recVars, tickVars, m_shouldStop,
                   flagVars, m_frameAccess, m_driverThread, pcD, thrown>>

\* the loop body entered without its lock_guard
U_Lock_NoLock ==
    /\ Alive /\ pcU = "lock"
    /\ pcU' = "record"
    /\ UNCHANGED <<cfgVars, devVars, frameVars, recVars, tickVars, m_shouldStop,
                   flagVars, m_frameAccess, m_driverThread, pcD, thrown, aborted>>

\* { std::lock_guard lock(m_frameAccess);
U_Lock ==
    /\ Alive /\ pcU = "lock" /\ m_frameAccess = "free"
    /\ m_frameAccess' = "update"
    /\ pcU' = "record"
    /\ UNCHANGED <<cfgVars, devVars, frameVars, recVars, tickVars, m_shouldStop,
                   flagVars, m_driverThread, pcD, thrown, aborted>>

\* the smallest buffer id not in use
NewBuffer == CHOOSE b \in 1..(Cardinality(DOMAIN heap) + 1) : b \notin DOMAIN heap

\* if (m_isRecording) { if (!m_logFileBufferBuilderP) { make both };
\*   BOOST_VERIFY(builder); BOOST_VERIFY(opticalTrackerP); BOOST_VERIFY(m_nextState);
\*   offset = toFlatBuffer(*builder, *tracker, *m_nextState);
\*   m_KUKAiiwaFusionTrackMessageBufferP->push_back(offset); }
U_Record ==
    /\ Alive /\ pcU = "record"
    /\ IF ~m_isRecording
       THEN /\ pcU' = "swap"
            /\ UNCHANGED <<m_logFileBufferBuilderP, m_KUKAiiwaFusionTrackMessageBufferP,
                           heap, session, appended, discarded, aborted>>
       ELSE IF ~(opticalTrackerP /\ m_nextState # NULL)
       THEN /\ aborted' = "assertion_failed"
            /\ UNCHANGED <<m_logFileBufferBuilderP, m_KUKAiiwaFusionTrackMessageBufferP,
                           heap, session, appended, discarded, pcU>>
       ELSE LET fresh == m_logFileBufferBuilderP = NULL
                b     == IF fresh THEN NewBuffer ELSE m_logFileBufferBuilderP
                v     == IF fresh THEN NewBuffer ELSE m_KUKAiiwaFusionTrackMessageBufferP
                old   == IF fresh THEN EmptyBuffer ELSE heap[b]
                oldv  == IF fresh THEN EmptyBuffer ELSE heap[v]
                w     == toFlatBuffer(old.fbb, frames[m_nextState])
            IN  /\ m_logFileBufferBuilderP' = b
                /\ m_KUKAiiwaFusionTrackMessageBufferP' = v
                /\ heap' = [x \in (DOMAIN heap) \cup {b} |->
                              IF x = b
                              THEN [fbb |-> w.fbb, msgs |-> Append(oldv.msgs, w.offset)]
                              ELSE heap[x]]
                /\ session' = Append(session, frames[m_nextState].seq)
                /\ appended' = appended \cup {frames[m_nextState].seq}
                /\ pcU' = "swap"
                /\ UNCHANGED <<aborted, discarded>>
    /\ UNCHANGED <<cfgVars, devVars, frameVars, m_saveRecordingThreads,
                   tickVars, m_shouldStop, flagVars, m_frameAccess,
                   m_driverThread, pcD, thrown>>

\* std::swap(m_receivedFrame, m_nextState); } the mutex is released
U_Swap ==
    /\ Alive /\ pcU = "swap"
    /\ m_receivedFrame' = m_nextState
    /\ m_nextState' = m_receivedFrame
    /\ m_frameAccess' = "free"
    /\ pcU' = "loop"
    /\ UNCHANGED <<cfgVars, devVars, frames, recvSlot, recvCount, recVars, tickVars,
                   m_shouldStop, flagVars, m_driverThread, pcD, thrown, aborted>>

Update ==
    \/ U_TryLock \/ U_Open \/ U_MakeFrames \/ U_Established
    \/ U_Catch \/ U_CatchStop \/ U_LoopTest
    \/ U_ReceiveBegin \/ U_ReceiveEnd \/ U_ReceiveThrow
    \/ U_Lock \/ U_Record \/ U_Swap

\* ---------------------------------------------------------------- run_one()

\* what an unsynchronised read of exceptionPtr can give: update() writes it
\* with no mutex held, and until its next atomic store the read races with
\* the write
ExceptionSeen ==
    IF pcU = "catch_stop" THEN {"null", exceptionPtr} ELSE {exceptionPtr}

\* run_one() without its test of isConnectionEstablished_
RunOneEntry_NoConnectionTest(seen) ==
    IF seen # "null" THEN "rethrown"
    ELSE IF ~allHandlesSet THEN "noop"
    ELSE "running"

\* what run_one() does once it has read exceptionPtr as `seen`
\*   if (exceptionPtr) rethrow;
\*   if (!isConnectionEstablished_ || !allHandlesSet) return;
RunOneEntry(seen) ==
    IF seen # "null" THEN "rethrown"
    ELSE IF ~isConnectionEstablished_ \/ ~allHandlesSet THEN "noop"
    ELSE "running"

T_Start ==
    /\ Callable /\ pcT = "idle"
    /\ \E seen \in ExceptionSeen :
         LET how == RunOneEntry(seen)
         IN  /\ tickResult' = how
             /\ pcT' = IF how = "running" THEN "lock" ELSE "idle"
    /\ UNCHANGED <<cfgVars, devVars, frameVars, recVars, tickFrame, tickIdx, tickLog,
                   tickSnap, m_shouldStop, flagVars, m_frameAccess,
                   m_driverThread, pcU, pcD, thrown, aborted>>

\* std::lock_guard lock(m_frameAccess);
\* BOOST_VERIFY(m_receivedFrame && m_nextState && opticalTrackerP);
\* for (auto &marker : m_receivedFrame->Markers)   -- the range is fixed here
T_Lock ==
    /\ Alive /\ pcT = "lock" /\ m_frameAccess = "free"
    /\ m_frameAccess' = "tick"
    /\ IF m_receivedFrame # NULL /\ m_nextState # NULL /\ opticalTrackerP
       THEN /\ tickFrame' = m_receivedFrame
            /\ tickIdx' = 1
            /\ tickSnap' = [map |-> m_geometryIDToVrepMotionConfigMap,
                            frame |-> m_receivedFrame,
                            content |-> frames[m_receivedFrame]]
            /\ pcT' = "markers"
            /\ UNCHANGED aborted
       ELSE /\ aborted' = "assertion_failed"
            /\ UNCHANGED <<tickFrame, tickIdx, tickSnap, pcT>>
    /\ UNCHANGED <<cfgVars, devVars, frameVars, recVars, tickLog, tickResult,
                   m_shouldStop, flagVars, m_driverThread, pcU, pcD, thrown>>

\* the loop body without the inversion of the transform
MarkerStep_NoInverse(marker, config) ==
    LET T == ftkMarkerToAffine3f(marker)
    IN  IF m_opticalTrackerBase = config[ObjectToMove]
           /\ config[FrameInWhichToMoveObject] = config[ObjectBeingMeasured]
        THEN [did |-> "call",
              calls |-> << <<config[ObjectToMove], config[FrameInWhichToMoveObject], T>> >>]
        ELSE IF config[FrameInWhichToMoveObject] # m_opticalTrackerBase
        THEN [did |-> "throw", calls |-> <<>>]
        ELSE [did |-> "call",
              calls |-> << <<config[ObjectToMove], config[FrameInWhichToMoveObject], T>> >>]

\* the loop body without the BOOST_THROW_EXCEPTION branch
MarkerStep_NoThrow(marker, config) ==
    LET T == ftkMarkerToAffine3f(marker)
    IN  IF m_opticalTrackerBase = config[ObjectToMove]
           /\ config[FrameInWhichToMoveObject] = config[ObjectBeingMeasured]
        THEN [did |-> "call",
              calls |-> << <<config[ObjectToMove], config[FrameInWhichToMoveObject],
                             TransformInverse(T)>> >>]
        ELSE [did |-> "call",
              calls |-> << <<config[ObjectToMove], config[FrameInWhichToMoveObject], T>> >>]

\* the body of run_one()'s loop for one marker under configuration `config`
\* (a map entry): which branch is taken and the setObjectTransform call made
MarkerStep(marker, config) ==
    LET T == ftkMarkerToAffine3f(marker)
    IN  IF m_opticalTrackerBase = config[ObjectToMove]
           /\ config[FrameInWhichToMoveObject] = config[ObjectBeingMeasured]
        THEN [did |-> "call",
              calls |-> << <<config[ObjectToMove], config[FrameInWhichToMoveObject],
                             TransformInverse(T)>> >>]
        ELSE IF config[FrameInWhichToMoveObject] # m_opticalTrackerBase
        THEN [did |-> "throw", calls |-> <<>>]
        ELSE [did |-> "call",
              calls |-> << <<config[ObjectToMove], config[FrameInWhichToMoveObject], T>> >>]

\* m_geometryIDToVrepMotionConfigMap.find(marker.geometryId)
ConfigFind(geometryId) ==
    IF geometryId \in DOMAIN m_geometryIDToVrepMotionConfigMap
    THEN <<m_geometryIDToVrepMotionConfigMap[geometryId]>>
    ELSE <<>>

\* one iteration of the loop over the markers of the frame; at
\* BOOST_THROW_EXCEPTION the loop is left with the mutex still held
T_Marker ==
    /\ Alive /\ pcT = "markers"
    /\ tickIdx <= Len(frames[tickFrame].Markers)
    /\ LET marker == frames[tickFrame].Markers[tickIdx]
           found  == ConfigFind(marker.geometryId)
           step   == IF found = <<>> THEN [did |-> "skip", calls |-> <<>>]
                     ELSE MarkerStep(marker, found[1])
           entry  == [marker |-> marker, idx |-> tickIdx, config |-> found,
                      partial |-> frames[tickFrame].partial,
                      did |-> step.did, calls |-> step.calls]
       IN  /\ tickLog' = Append(tickLog, entry)
           /\ IF step.did = "throw"
              THEN pcT' = "throwing" /\ UNCHANGED tickIdx
              ELSE tickIdx' = tickIdx + 1 /\ UNCHANGED pcT
    /\ UNCHANGED <<cfgVars, devVars, frameVars, recVars, tickFrame, tickSnap,
                   tickResult, m_frameAccess, m_shouldStop, flagVars,
                   m_driverThread, pcU, pcD, thrown, aborted>>

\* how run_one() leaves: the lock_guard releases the mutex, on return and
\* when the exception unwinds the stack
T_Leave(how) ==
    /\ m_frameAccess' = "free"
    /\ tickResult' = how
    /\ pcT' = "idle"
    /\ tickFrame' = NULL
    /\ tickIdx' = 0
    /\ tickLog' = <<>>
    /\ tickSnap' = NoSnap
    /\ UNCHANGED <<cfgVars, devVars, frameVars, recVars, m_shouldStop, flagVars,
                   m_driverThread, pcU, pcD, thrown, aborted>>

\* the runtime_error leaves run_one() and the mutex stays locked
T_Throw_KeepsLock ==
    /\ Alive /\ pcT = "throwing"
    /\ tickResult' = "unsupported"
    /\ pcT' = "idle"
    /\ tickFrame' = NULL
    /\ tickIdx' = 0
    /\ tickLog' = <<>>
    /\ tickSnap' = NoSnap
    /\ UNCHANGED <<cfgVars, devVars, frameVars, recVars, m_shouldStop, flagVars,
                   m_frameAccess, m_driverThread, pcU, pcD, thrown, aborted>>

\* the runtime_error leaves run_one()
T_Throw ==
    /\ Alive /\ pcT = "throwing"
    /\ T_Leave("unsupported")

\* the loop is over: run_one() returns
T_Done ==
    /\ Alive /\ pcT = "markers"
    /\ tickIdx > Len(frames[tickFrame].Markers)
    /\ T_Leave("done")

RunOne == T_Start \/ T_Lock \/ T_Marker \/ T_Throw \/ T_Done

\* --------------------------------------------- configuration of the targets

\* add_object / clear_objects / remove_geometry without their lock_guard
ConfigLockFree_NoLock == TRUE

\* the mutex as add_object / clear_objects / remove_geometry need it
ConfigLockFree == m_frameAccess = "free"

\* add_object(mcp): lock_guard, MotionConfigParamsAddConfig on the member map
AddObject ==
    /\ Callable /\ ConfigLockFree
    /\ \E mcp \in AddChoices :
       \E r \in MotionConfigParamsAddConfig(mcp, m_geometryIDToVrepMotionConfigMap) :
         /\ m_geometryIDToVrepMotionConfigMap' = r.map
         /\ thrown' = r.thrown
         /\ specMap' = IF r.thrown = "none"
                       THEN MapPut(specMap, lexical_cast_int(mcp[GeometryID]).val,
                                   <<simGetObjectHandle(mcp[ObjectToMove]),
                                     simGetObjectHandle(mcp[FrameInWhichToMoveObject]),
                                     simGetObjectHandle(mcp[ObjectBeingMeasured])>>)
                       ELSE specMap
    /\ UNCHANGED <<params_, m_opticalTrackerBase, allHandlesSet, devVars, frameVars,
                   recVars, tickVars, m_shouldStop, flagVars, m_frameAccess,
                   m_driverThread, pcU, pcD, aborted>>

\* clear_objects(): lock_guard, map.clear()
ClearObjects ==
    /\ Callable /\ ConfigLockFree
    /\ m_geometryIDToVrepMotionConfigMap' = EmptyMap
    /\ specMap' = EmptyMap
    /\ thrown' = "none"
    /\ UNCHANGED <<params_, m_opticalTrackerBase, allHandlesSet, devVars, frameVars,
                   recVars, tickVars, m_shouldStop, flagVars, m_frameAccess,
                   m_driverThread, pcU, pcD, aborted>>

\* remove_geometry(std::string): lexical_cast<int>, then
\* remove_geometry(int): lock_guard, map.erase(id)
RemoveGeometry ==
    /\ Callable
    /\ \E text \in RemoveChoices :
         LET id == lexical_cast_int(text)
         IN  IF ~id.ok
             THEN /\ thrown' = "bad_lexical_cast"
                  /\ UNCHANGED <<m_geometryIDToVrepMotionConfigMap, specMap>>
             ELSE /\ ConfigLockFree
                  /\ m_geometryIDToVrepMotionConfigMap' =
                        MapErase(m_geometryIDToVrepMotionConfigMap, id.val)
                  /\ specMap' = MapErase(specMap, id.val)
                  /\ thrown' = "none"
    /\ UNCHANGED <<params_, m_opticalTrackerBase, allHandlesSet, devVars, frameVars,
                   recVars, tickVars, m_shouldStop, flagVars, m_frameAccess,
                   m_driverThread, pcU, pcD, aborted>>

\* ---------------------------------------------------------------- recording

\* start_recording(): m_isRecording = true, no mutex taken
StartRecording ==
    /\ Callable
    /\ m_isRecording' = TRUE
    /\ startCalled' = TRUE
    /\ thrown' = "none"
    /\ UNCHANGED <<cfgVars, devVars, frameVars, recVars, tickVars, m_shouldStop,
                   m_frameAccess, m_driverThread, pcU, pcD, aborted>>

\* stop_recording(): m_isRecording = false, no mutex taken
StopRecording ==
    /\ Callable
    /\ m_isRecording' = FALSE
    /\ startCalled' = FALSE
    /\ thrown' = "none"
    /\ UNCHANGED <<cfgVars, devVars, frameVars, recVars, tickVars, m_shouldStop,
                   m_frameAccess, m_driverThread, pcU, pcD, aborted>>

\* save_recording / clear_recording without their lock_guard
RecordingLockFree_NoLock == TRUE

\* the mutex as save_recording / clear_recording need it
RecordingLockFree == m_frameAccess = "free"

\* the name the n-th save_recording call is given; "" asks for the default
FilenameGiven(n) == IF n % 2 = 1 THEN "" ELSE "x.flik"

\* current_date_and_time_string() + "FusionTrack.flik"
DefaultFilename == "<date_and_time>FusionTrack.flik"

\* the state a save thread is in when save_recording() returns
StartedThread == "running"

\* save_recording() that copies the shared_ptr into the lambda and keeps them
ActiveAfterSave_Kept == m_logFileBufferBuilderP

\* m_logFileBufferBuilderP = make_shared<FlatBufferBuilder>() and the same
\* for the message vector: the buffer the members name after the save
ActiveAfterSave == NewBuffer

\* how the body of save_recording() ends: the function is declared bool and
\* its closing brace is reached with no return statement, which is undefined;
\* a build either returns an indeterminate value to the caller or runs on
\* past the end of the function (a trap, or whatever code follows)
SaveRecordingEnd == {aborted, "no_return"}

\* save_recording(filename): under the mutex the builder and the message
\* vector are moved into the lambda, a thread is started on it and pushed to
\* m_saveRecordingThreads, and a new builder and vector are made
SaveRecording ==
    /\ Callable /\ RecordingLockFree
    /\ Len(m_saveRecordingThreads) < MaxSaves
    /\ LET filename == FilenameGiven(Len(m_saveRecordingThreads) + 1)
       IN  m_saveRecordingThreads' = Append(m_saveRecordingThreads,
            [save_fbbP |-> m_logFileBufferBuilderP,
             save_KUKAiiwaFusionTrackMessageBufferP |-> m_KUKAiiwaFusionTrackMessageBufferP,
             filename |-> IF filename = "" THEN DefaultFilename ELSE filename,
             state |-> StartedThread,
             file |-> <<>>,
             success |-> FALSE,
             joins |-> 0,
             expected |-> session])
    /\ m_logFileBufferBuilderP' = ActiveAfterSave
    /\ m_KUKAiiwaFusionTrackMessageBufferP' = ActiveAfterSave
    /\ heap' = [x \in (DOMAIN heap) \cup {ActiveAfterSave} |->
                  IF x \in DOMAIN heap THEN heap[x] ELSE EmptyBuffer]
    /\ session' = <<>>
    /\ thrown' = "none"
    /\ aborted' \in SaveRecordingEnd
    /\ UNCHANGED <<cfgVars, devVars, frameVars, appended, discarded, tickVars,
                   m_shouldStop, flagVars, m_frameAccess, m_driverThread, pcU,
                   pcD>>

\* clear_recording() taking the mutex and leaving both shared_ptr as they are
ClearRecording_KeepsBuffer ==
    /\ Callable /\ RecordingLockFree
    /\ appended' = appended \ {session[k] : k \in 1..Len(session)}
    /\ discarded' = discarded \cup {session[k] : k \in 1..Len(session)}
    /\ session' = <<>>
    /\ thrown' = "none"
    /\ UNCHANGED <<cfgVars, devVars, frameVars, m_saveRecordingThreads,
                   m_logFileBufferBuilderP, m_KUKAiiwaFusionTrackMessageBufferP, heap,
                   tickVars, m_shouldStop, flagVars, m_frameAccess,
                   m_driverThread, pcU, pcD, aborted>>

\* clear_recording(): under the mutex both shared_ptr are reset; the buffer
\* they owned is destroyed
ClearRecording ==
    /\ Callable /\ RecordingLockFree
    /\ m_logFileBufferBuilderP' = NULL
    /\ m_KUKAiiwaFusionTrackMessageBufferP' = NULL
    /\ heap' = [x \in (DOMAIN heap) \ {m_logFileBufferBuilderP} |-> heap[x]]
    /\ appended' = appended \ {session[k] : k \in 1..Len(session)}
    /\ discarded' = discarded \cup {session[k] : k \in 1..Len(session)}
    /\ session' = <<>>
    /\ thrown' = "none"
    /\ UNCHANGED <<cfgVars, devVars, frameVars, m_saveRecordingThreads,
                   tickVars, m_shouldStop, flagVars, m_frameAccess,
                   m_driverThread, pcU, pcD, aborted>>

\* the save lambda of thread i runs to its end: the log is finished,
\* verified and written. A null save_fbbP is dereferenced.
SaveThreadRun(i) ==
    /\ Alive
    /\ m_saveRecordingThreads[i].state = "running"
    /\ LET t == m_saveRecordingThreads[i]
       IN  IF t.save_fbbP = NULL \/ t.save_KUKAiiwaFusionTrackMessageBufferP = NULL
           THEN /\ aborted' = "null_dereference"
                /\ UNCHANGED m_saveRecordingThreads
           ELSE /\ m_saveRecordingThreads' =
                     [m_saveRecordingThreads EXCEPT
                        ![i].state = "done",
                        ![i].success =
                            VerifyLogKUKAiiwaFusionTrackBuffer(FinishedLog(heap[t.save_fbbP])),
                        ![i].file = <<FinishedLog(heap[t.save_fbbP])>>]
                /\ UNCHANGED aborted
    /\ UNCHANGED <<cfgVars, devVars, frameVars, m_logFileBufferBuilderP,
                   m_KUKAiiwaFusionTrackMessageBufferP, heap, session, appended, discarded,
                   tickVars, m_shouldStop, flagVars, m_frameAccess,
                   m_driverThread, pcU, pcD, thrown>>

SaveThreads == \E i \in 1..Len(m_saveRecordingThreads) : SaveThreadRun(i)

\* ----------------------------------------------------------------- destruct()

\* m_shouldStop = true;
D_Stop ==
    /\ Callable
    /\ m_shouldStop' = TRUE
    /\ pcD' = "join_driver"
    /\ UNCHANGED <<cfgVars, devVars, frameVars, recVars, tickVars, flagVars,
                   m_frameAccess, m_driverThread, pcU, thrown, aborted>>

\* if (m_driverThread) m_driverThread->join();  -- returns when update() has
D_JoinDriver ==
    /\ Alive /\ pcD = "join_driver"
    /\ \/ /\ m_driverThread = "null"
          /\ UNCHANGED m_driverThread
       \/ /\ m_driverThread = "running" /\ pcU = "done"
          /\ m_driverThread' = "joined"
    /\ pcD' = "join_saves"
    /\ UNCHANGED <<cfgVars, devVars, frameVars, recVars, tickVars, m_shouldStop,
                   flagVars, m_frameAccess, pcU, thrown, aborted>>

\* for (auto &saveThreadP : m_saveRecordingThreads) m_driverThread->join();
\* the loop joins the driver thread again, never a save thread: with no save
\* thread destruct() returns; otherwise join() of the joined thread throws
\* std::system_error (out of destruct(), or std::terminate from the
\* destructor), and a null m_driverThread is dereferenced
D_JoinSaves ==
    /\ Alive /\ pcD = "join_saves"
    /\ \/ /\ m_saveRecordingThreads = <<>>
          /\ pcD' = "done"
          /\ UNCHANGED <<thrown, aborted>>
       \/ /\ m_saveRecordingThreads # <<>> /\ m_driverThread = "joined"
          /\ \/ thrown' = "system_error" /\ pcD' = "thrown" /\ UNCHANGED aborted
             \/ aborted' = "terminate" /\ UNCHANGED <<thrown, pcD>>
       \/ /\ m_saveRecordingThreads # <<>> /\ m_driverThread = "null"
          /\ aborted' = "null_thread_dereference"
          /\ UNCHANGED <<thrown, pcD>>
    /\ UNCHANGED <<cfgVars, devVars, frameVars, recVars, tickVars, m_shouldStop,
                   flagVars, m_frameAccess, m_driverThread, pcU>>

Destruct == D_Stop \/ D_JoinDriver \/ D_JoinSaves

\* ------------------------------------------------------------ specification

\* every operation of the plugin
Next ==
    \/ Construct
    \/ Update
    \/ RunOne
    \/ AddObject \/ ClearObjects \/ RemoveGeometry
    \/ StartRecording \/ StopRecording \/ SaveRecording \/ ClearRecording
    \/ SaveThreads
    \/ Destruct

Spec == Init /\ [][Next]_vars

\* The plugin with the callers restricted to run_one(), the configuration of
\* the targets and destruct(); the driver thread is whole.
NextTick ==
    \/ Construct
    \/ Update
    \/ RunOne
    \/ AddObject \/ ClearObjects \/ RemoveGeometry
    \/ Destruct

SpecTick == Init /\ [][NextTick]_vars

\* The plugin recorded from, saved and torn down: the driver thread, the
\* save threads and destruct().
NextShutdown ==
    \/ Construct
    \/ Update
    \/ StartRecording \/ SaveRecording
    \/ SaveThreads
    \/ Destruct

SpecShutdown == Init /\ [][NextShutdown]_vars

\* The plugin run and stopped: the driver thread, run_one() as the other
\* taker of the mutex, and destruct().
NextStop ==
    \/ Construct
    \/ Update
    \/ RunOne
    \/ Destruct

\* the scheduler runs the driver thread when it can run, receive() comes
\* back, a run_one() that holds m_frameAccess runs on to the end of its
\* scope, and a thread that keeps asking for m_frameAccess gets it
FairStop ==
    /\ WF_vars(Update)
    /\ WF_vars(T_Marker \/ T_Throw \/ T_Done)
    /\ SF_vars(U_TryLock)
    /\ SF_vars(U_Lock)

SpecStop == Init /\ [][NextStop]_vars /\ FairStop

\* The plugin with every kind of taker of m_frameAccess: the driver thread,
\* run_one(), the configuration calls and the recording calls.
NextLock ==
    \/ Construct
    \/ Update
    \/ RunOne
    \/ ClearObjects
    \/ StartRecording \/ StopRecording \/ SaveRecording \/ ClearRecording

SpecLock == Init /\ [][NextLock]_vars

\* The plugin with the callers restricted to the recording operations; the
\* driver thread and the save threads are whole.
NextRec ==
    \/ Construct
    \/ Update
    \/ StartRecording \/ StopRecording \/ SaveRecording \/ ClearRecording
    \/ SaveThreads

SpecRec == Init /\ [][NextRec]_vars

\* ===================================================================== claims

\* update()'s try block was left by an exception
ConnectFailed == connectOutcome \in {"open_failed", "alloc_failed"}

\* run_one() holds the mutex and is in, or leaving, its loop over the markers
InUpdateStep == pcT \in {"markers", "throwing"}

\* ---- C1
C1_State ==
    /\ isConnectionEstablished_ =>
          /\ m_receivedFrame \in FrameSlots /\ m_nextState \in FrameSlots
          /\ m_receivedFrame # m_nextState
    /\ pcU = "receiving" =>
          /\ recvSlot = m_nextState
          /\ recvSlot # m_receivedFrame
          /\ frames[m_receivedFrame].partial = FALSE
    /\ InUpdateStep =>
          /\ tickFrame = m_receivedFrame
          /\ pcU = "receiving" => recvSlot # tickFrame
          /\ frames[tickFrame].partial = FALSE
          /\ \A k \in 1..Len(tickLog) : tickLog[k].partial = FALSE

C1_Step ==
    (m_receivedFrame' # m_receivedFrame \/ m_nextState' # m_nextState) =>
        \/ m_frameAccess = "update"
        \/ m_receivedFrame = NULL /\ m_nextState = NULL /\ pcU = "make_frames"

\* C1: in every interleaving of update() and run_one(), the frame run_one()
\* reads as current is never the frame receive() is writing: receive() writes
\* only the frame m_nextState names, the two frames are always distinct, the
\* two pointers change only while update() holds m_frameAccess, and run_one()
\* never reads a partially written frame.
C1_CurrentFrameNeverWritten == [](C1_State) /\ [][C1_Step]_vars

\* run_one() is in the middle of a frame with several markers while the
\* device is writing the other frame
C1_Witness ==
    /\ pcT = "markers" /\ tickIdx >= 2
    /\ pcU = "receiving"
    /\ frames[tickFrame].seq >= 1

\* ---- C2
C2_State ==
    ConnectFailed =>
        /\ ~isConnectionEstablished_
        /\ recvCount = 0
        /\ pcU \in {"catch", "catch_stop", "loop", "done"}
        /\ pcU # "catch" => exceptionPtr = connectOutcome
        /\ pcU \in {"loop", "done"} => m_shouldStop

C2_Step ==
    /\ exceptionPtr # "null" => exceptionPtr' = exceptionPtr
    /\ (T_Start /\ ConnectFailed /\ pcU \in {"loop", "done"}) =>
          /\ tickResult' = "rethrown"
          /\ pcT' = "idle"
          /\ m_frameAccess' = m_frameAccess
          /\ tickLog' = <<>>

\* C2: when opening the device or allocating the frames fails, the exception
\* is stored in exceptionPtr, the loop of update() ends without a call of
\* receive(), isConnectionEstablished_ stays false, exceptionPtr is never
\* cleared, and every later run_one() rethrows it and does nothing else: it
\* takes no mutex and makes no setObjectTransform call.
C2_ConnectFailureIsTerminal == [](C2_State) /\ [][C2_Step]_vars

\* the second frame allocation failed, update() has returned and a run_one()
\* rethrew the exception
C2_Witness ==
    /\ connectOutcome = "alloc_failed" /\ m_receivedFrame # NULL
    /\ pcU = "done"
    /\ tickResult = "rethrown"

\* ---- C3
\* C3: a receive() that fails while the loop runs is captured into
\* exceptionPtr and the loop stops, so that the next run_one() rethrows it; the
\* failure never leaves the driver thread uncaught.
C3_ReceiveFailureCaptured ==
    recvFailed =>
        /\ exceptionPtr # "null"
        /\ aborted = "none"
        /\ pcU \in {"loop", "done"}

\* ---- C4
\* C4 as stated: whenever isConnectionEstablished_ is false, also after a
\* failed connection attempt, run_one() returns without raising, without
\* taking the mutex and without a setObjectTransform call.
C4_NoopWheneverNotConnected ==
    [][(T_Start /\ ~isConnectionEstablished_) =>
          /\ tickResult' = "noop"
          /\ pcT' = "idle"
          /\ m_frameAccess' = m_frameAccess
          /\ tickLog' = <<>>]_vars

\* C4, amended: whenever isConnectionEstablished_ is false and exceptionPtr
\* holds no exception, run_one() returns without raising, without taking
\* the mutex and without a setObjectTransform call.
C4_NoopBeforeConnection ==
    [][(T_Start /\ ~isConnectionEstablished_ /\ exceptionPtr = "null") =>
          /\ tickResult' = "noop"
          /\ pcT' = "idle"
          /\ m_frameAccess' = m_frameAccess
          /\ tickLog' = <<>>]_vars

\* run_one() was a no-op while update() held the mutex to connect
C4_Witness ==
    /\ tickResult = "noop"
    /\ allHandlesSet /\ ~isConnectionEstablished_ /\ exceptionPtr = "null"
    /\ pcU = "make_frames" /\ m_frameAccess = "update"

\* ---- recording

\* the frames a recording buffer holds, in the order of its message vector;
\* none for a null pointer
RecordsOf(ptr) ==
    IF ptr = NULL THEN <<>>
    ELSE [k \in 1..Len(heap[ptr].msgs) |-> heap[ptr].fbb[heap[ptr].msgs[k]].seq]

\* how often frame f is in a sequence of frames
Occurrences(f, records) == Cardinality({k \in 1..Len(records) : records[k] = f})

RECURSIVE SumOver(_, _)
SumOver(n, counts) == IF n = 0 THEN 0 ELSE counts[n] + SumOver(n - 1, counts)

\* how often frame f is held: in the detached buffer of each save thread and
\* in the active buffer
Held(f) ==
    SumOver(Len(m_saveRecordingThreads),
            [i \in 1..Len(m_saveRecordingThreads) |->
                Occurrences(f, RecordsOf(m_saveRecordingThreads[i].save_KUKAiiwaFusionTrackMessageBufferP))])
    + Occurrences(f, RecordsOf(m_KUKAiiwaFusionTrackMessageBufferP))

\* ---- C5
C5_State ==
    \A i \in 1..Len(m_saveRecordingThreads) :
        LET t == m_saveRecordingThreads[i]
        IN  /\ RecordsOf(t.save_KUKAiiwaFusionTrackMessageBufferP) = t.expected
            /\ t.state = "done" =>
                  /\ Len(t.file[1].states) = Len(t.expected)
                  /\ \A k \in 1..Len(t.expected) : t.file[1].states[k].seq = t.expected[k]

C5_Step ==
    (startCalled /\ Len(m_saveRecordingThreads') = Len(m_saveRecordingThreads) + 1) =>
        LET t == m_saveRecordingThreads'[Len(m_saveRecordingThreads')]
        IN  /\ t.save_fbbP # NULL
            /\ t.save_KUKAiiwaFusionTrackMessageBufferP # NULL
            /\ t.expected = session

\* C5: after start_recording(), N frames taken by update() and
\* save_recording(), the builder and message vector handed to the save thread
\* are present and hold exactly the records of those N frames, one per frame,
\* in the order received, and so does the file written, for every N >= 0.
C5_SavedRecordsAreTheFramesReceived == [](C5_State) /\ [][C5_Step]_vars

\* ---- C6
C6_State ==
    /\ \A f \in appended : Held(f) = 1
    /\ RecordsOf(m_KUKAiiwaFusionTrackMessageBufferP) = session
    /\ \A i \in 1..Len(m_saveRecordingThreads) :
          RecordsOf(m_saveRecordingThreads[i].save_KUKAiiwaFusionTrackMessageBufferP)
             = m_saveRecordingThreads[i].expected

C6_Step ==
    Len(m_saveRecordingThreads') > Len(m_saveRecordingThreads) =>
        LET n == Len(m_saveRecordingThreads')
        IN  /\ n = Len(m_saveRecordingThreads) + 1
            /\ aborted' = aborted
            /\ m_saveRecordingThreads'[n].state = "running"
            /\ m_saveRecordingThreads'[n].file = <<>>
            /\ m_saveRecordingThreads'[n].save_fbbP = m_logFileBufferBuilderP
            /\ m_logFileBufferBuilderP' # NULL
            /\ heap'[m_logFileBufferBuilderP'] = EmptyBuffer
            /\ \A i \in 1..n : m_saveRecordingThreads'[i].save_fbbP # m_logFileBufferBuilderP'

\* C6: save_recording() returns to its caller with its save thread still to
\* run, and in any interleaving of update() with save_recording() calls every
\* frame appended (and not cleared) is in exactly one buffer, a detached one
\* or the active one, exactly once: none is lost or held twice, and a frame
\* appended after a save goes into the new buffer, the detached one keeping
\* what it held.
C6_EveryFrameInOneBuffer == [](C6_State) /\ [][C6_Step]_vars

\* ---- C7
\* C7: after any sequence of add_object / remove_geometry / clear_objects
\* calls the map holds exactly the geometry ids added and not removed or
\* cleared since, each with the handles of its latest add; removing an
\* absent id changes nothing and throws nothing.
C7_ConfigMapIsWhatTheCallsDescribe ==
    m_geometryIDToVrepMotionConfigMap = specMap

\* ---- C8
\* C8: within one run_one() all markers are looked up in one state of the map
\* and belong to one current frame: from the moment run_one() holds the
\* mutex to the moment it leaves, the map, the current-frame pointer and the
\* frame's content are those it found, and each marker it has processed was
\* taken from that frame and looked up in that map.
C8_UpdateStepSeesOneMapAndFrame ==
    InUpdateStep =>
        /\ m_geometryIDToVrepMotionConfigMap = tickSnap.map
        /\ m_receivedFrame = tickSnap.frame
        /\ tickFrame = tickSnap.frame
        /\ frames[tickSnap.frame] = tickSnap.content
        /\ \A k \in 1..Len(tickLog) :
              /\ tickLog[k].idx = k
              /\ tickLog[k].marker = tickSnap.content.Markers[k]
              /\ tickLog[k].config =
                    IF tickLog[k].marker.geometryId \in DOMAIN tickSnap.map
                    THEN <<tickSnap.map[tickLog[k].marker.geometryId]>> ELSE <<>>

\* run_one() has processed two markers of a received frame and is at the
\* third, with a map of two entries
C8_Witness ==
    /\ pcT = "markers" /\ tickIdx = 3 /\ Len(tickLog) = 2
    /\ Cardinality(DOMAIN m_geometryIDToVrepMotionConfigMap) >= 2
    /\ pcU = "lock"

\* ---- C9
Identity == <<1, 0>>

IsInverseOf(X, T) ==
    TransformCompose(X, T) = Identity /\ TransformCompose(T, X) = Identity

\* the decision table of C9 for a marker whose map entry is `found` (<<>>
\* when there is none): whether the calls made are the ones the table gives
FollowsTable(marker, found, did, calls) ==
    IF found = <<>>
    THEN did = "skip" /\ calls = <<>>
    ELSE LET Move == found[1][ObjectToMove]
             Within == found[1][FrameInWhichToMoveObject]
             Measured == found[1][ObjectBeingMeasured]
         IN  IF Move = m_opticalTrackerBase /\ Within = Measured
             THEN /\ did = "call" /\ Len(calls) = 1
                  /\ calls[1][1] = Move /\ calls[1][2] = Within
                  /\ IsInverseOf(calls[1][3], marker.pose)
             ELSE Within = m_opticalTrackerBase =>
                  /\ did = "call" /\ Len(calls) = 1
                  /\ calls[1] = <<Move, Within, marker.pose>>

\* the entry of the map for a geometry id, <<>> when there is none
EntryOf(g) ==
    IF g \in DOMAIN m_geometryIDToVrepMotionConfigMap
    THEN <<m_geometryIDToVrepMotionConfigMap[g]>> ELSE <<>>

\* run_one()'s loop over the markers has ended, by its end or by the throw
UpdateStepOver ==
    \/ pcT = "throwing"
    \/ pcT = "markers" /\ tickIdx > Len(frames[tickFrame].Markers)

\* what run_one() did for the marker at place k of the frame: nothing when it
\* never got there
DidFor(k) == IF k <= Len(tickLog) THEN tickLog[k].did ELSE "skip"

CallsFor(k) == IF k <= Len(tickLog) THEN tickLog[k].calls ELSE <<>>

\* C9 as stated: for every marker of the current frame run_one() follows the
\* table: no entry, no call and no error; Move = Base and Within = Measured,
\* one call (Move, Within, inverse(T)); otherwise Within = Base, one call
\* (Move, Within, T).
C9_EveryMarkerFollowsTable ==
    UpdateStepOver =>
        \A k \in 1..Len(frames[tickFrame].Markers) :
            FollowsTable(frames[tickFrame].Markers[k],
                         EntryOf(frames[tickFrame].Markers[k].geometryId),
                         DidFor(k), CallsFor(k))

\* C9, amended: for every marker of the current frame that run_one() reaches
\* (every marker when none makes it throw, else the markers up to the one
\* that does) run_one() follows the table: no entry, no call and no error;
\* Move = Base and Within = Measured, one call (Move, Within, inverse(T));
\* otherwise Within = Base, one call (Move, Within, T). The markers after one
\* that makes run_one() throw get no call.
C9_ReachedMarkersFollowTable ==
    InUpdateStep =>
        /\ \A k \in 1..Len(tickLog) :
              /\ tickLog[k].marker = frames[tickFrame].Markers[k]
              /\ FollowsTable(tickLog[k].marker, EntryOf(tickLog[k].marker.geometryId),
                              tickLog[k].did, tickLog[k].calls)
              /\ tickLog[k].did = "throw" => (k = Len(tickLog) /\ pcT = "throwing")
        /\ pcT = "markers" => Len(tickLog) = tickIdx - 1
        /\ pcT = "throwing" =>
              (tickLog # <<>> /\ tickLog[Len(tickLog)].did = "throw")

\* one run_one() has skipped a marker with no entry, moved geometry 22 as
\* measured and moved the base by the inverse for geometry 55
C9_Witness ==
    /\ pcT = "markers" /\ Len(tickLog) = 3
    /\ tickLog[1].did = "skip"
    /\ tickLog[2].calls = << <<12, 10, tickLog[2].marker.pose>> >>
    /\ tickLog[3].marker.geometryId = 55
    /\ tickLog[3].calls = << <<10, 11, TransformInverse(tickLog[3].marker.pose)>> >>
    /\ tickLog[3].calls[1][3] # tickLog[3].marker.pose

\* ---- C10
\* the configuration is one C10 is about: Within is neither Base nor Measured
Unsupported(config) ==
    /\ config[FrameInWhichToMoveObject] # m_opticalTrackerBase
    /\ config[FrameInWhichToMoveObject] # config[ObjectBeingMeasured]

\* the places of the frame whose marker has an unsupported configuration
UnsupportedPlaces ==
    {k \in 1..Len(frames[tickFrame].Markers) :
        LET e == EntryOf(frames[tickFrame].Markers[k].geometryId)
        IN  e # <<>> /\ Unsupported(e[1])}

C10_State ==
    InUpdateStep =>
        \A k \in UnsupportedPlaces :
            /\ tickIdx <= k
            /\ Len(tickLog) <= k
            /\ \A j \in 1..Len(tickLog) : j >= k => tickLog[j].calls = <<>>
            /\ Len(tickLog) = k => (tickLog[k].did = "throw" /\ pcT = "throwing")

C10_Step ==
    /\ (pcT = "throwing" /\ pcT' # "throwing") =>
          (tickResult' = "unsupported" /\ m_frameAccess' = "free")
    /\ (InUpdateStep /\ UnsupportedPlaces # {} /\ pcT' = "idle") =>
          tickResult' = "unsupported"

\* C10: when the current frame holds a marker whose configuration has
\* Within # Base and Within # Measured, run_one() throws the runtime_error
\* and makes no setObjectTransform call for that marker nor for any marker
\* after it in the frame.
C10_UnsupportedConfigurationThrows == [](C10_State) /\ [][C10_Step]_vars

\* run_one() throws at the second marker of a frame of three, after a call
\* for none of them
C10_Witness ==
    /\ pcT = "throwing" /\ Len(tickLog) = 2
    /\ Len(frames[tickFrame].Markers) = 3
    /\ tickLog[2].config # <<>> /\ Unsupported(tickLog[2].config[1])
    /\ EntryOf(frames[tickFrame].Markers[3].geometryId) # <<>>


\* ---- C11
\* C11: destruct(), having set m_shouldStop and joined the driver thread,
\* joins every save thread an earlier save_recording() started and returns:
\* the driver thread and all save threads have ended and each save thread
\* was joined exactly once, for 0, 1 or several earlier saves. (Stated for
\* a plugin whose driver thread construct() started.)
C11_ShutdownJoinsEverySaveThread ==
    [][(D_JoinSaves /\ m_driverThread = "joined") =>
          /\ pcD' = "done"
          /\ aborted' = "none" /\ thrown' = thrown
          /\ pcU \in {"done", "not_started"}
          /\ \A i \in 1..Len(m_saveRecordingThreads') :
                /\ m_saveRecordingThreads'[i].state = "done"
                /\ m_saveRecordingThreads'[i].joins = 1]_vars

\* ---- C12
C12_Step ==
    /\ m_shouldStop => m_shouldStop'
    /\ (m_shouldStop /\ pcU = "loop" /\ pcU' # pcU) => pcU' = "done"
    /\ (m_shouldStop /\ pcU' = "receive") => pcU = "receive"
    /\ (m_shouldStop /\ pcU \in {"lock", "record", "swap"}) => recvCount' = recvCount
    /\ pcU = "done" => pcU' = "done"

\* C12: once m_shouldStop is set it stays set; update() finishes at most the
\* iteration it is in (its receive, the append and the swap), the next loop
\* test leaves the loop and no later iteration starts a receive(); update()
\* once returned never runs again; and when receive() comes back and the
\* mutex is granted fairly, update() returns (or the process has ended).
C12_StopEndsTheLoop ==
    /\ [][C12_Step]_vars
    /\ (m_shouldStop /\ m_driverThread = "running") ~> (pcU = "done" \/ ~Alive)

\* destruct() asked to stop after frames were received, update() finished
\* and was joined
C12_Witness ==
    /\ pcD = "done" /\ m_driverThread = "joined"
    /\ connectOutcome = "ok" /\ recvCount >= 1 /\ recvCount < MaxFrames
    /\ pcU = "done"


\* ---- C13
\* the recording buffers the plugin itself owns: what its two shared_ptr
\* members name
ActiveBuffers ==
    {m_logFileBufferBuilderP, m_KUKAiiwaFusionTrackMessageBufferP} \ {NULL}

\* C13: in every reachable state, after any start_recording /
\* stop_recording / save_recording / clear_recording calls and iterations of
\* update(), exactly one recording buffer is active: the builder and the
\* message vector are present and are the plugin's own; never none, never two.
C13_ExactlyOneActiveBuffer ==
    /\ m_logFileBufferBuilderP # NULL
    /\ m_KUKAiiwaFusionTrackMessageBufferP # NULL
    /\ Cardinality(ActiveBuffers) = 1
    /\ ActiveBuffers \subseteq DOMAIN heap


\* ---- C14
\* a step writes which frame is the current and which the next one
RolesWritten == <<m_receivedFrame, m_nextState>>' # <<m_receivedFrame, m_nextState>>

\* a step writes the configuration map
MapWritten == m_geometryIDToVrepMotionConfigMap' # m_geometryIDToVrepMotionConfigMap

\* a step writes the active recording buffer or the pointers to it
BufferWritten ==
    \/ <<m_logFileBufferBuilderP, m_KUKAiiwaFusionTrackMessageBufferP>>'
          # <<m_logFileBufferBuilderP, m_KUKAiiwaFusionTrackMessageBufferP>>
    \/ /\ m_logFileBufferBuilderP # NULL
       /\ m_logFileBufferBuilderP \in DOMAIN heap'
       /\ heap'[m_logFileBufferBuilderP] # heap[m_logFileBufferBuilderP]

\* the step is taken by update()
DriverStep == pcU # "not_started" /\ pcU' # pcU

\* the step is a call whose body is under a lock_guard of m_frameAccess
LockedCall ==
    \/ AddObject \/ ClearObjects \/ RemoveGeometry
    \/ SaveRecording \/ ClearRecording

\* the thread taking the step holds m_frameAccess: the driver thread has
\* locked it, or the step is a call that takes it for the length of the
\* call, which it can only when no other thread holds it
StepHoldsLock ==
    IF DriverStep THEN m_frameAccess = "update"
    ELSE LockedCall /\ m_frameAccess = "free"

\* the reads: run_one() in its loop and update() between lock and swap hold
\* the mutex
ReadersHoldLock ==
    /\ InUpdateStep => m_frameAccess = "tick"
    /\ pcU \in {"record", "swap"} => m_frameAccess = "update"

DriverLocked == {"open", "make_frames", "established", "record", "swap"}

\* a thread asks for the mutex only when it does not hold it, and holds it
\* only inside the scope of its lock_guard
C15_Scopes ==
    /\ pcU \in DriverLocked <=> m_frameAccess = "update"
    /\ pcT \in {"markers", "throwing"} <=> m_frameAccess = "tick"

\* while a thread waits for the mutex, the thread that holds it can take its
\* next step, unless the process has ended
C15_HolderRuns ==
    (Alive /\ m_frameAccess # "free" /\ (pcT = "lock" \/ pcU \in {"try_lock", "lock"})) =>
        IF m_frameAccess = "update"
        THEN ENABLED (U_Open \/ U_MakeFrames \/ U_Established \/ U_Record \/ U_Swap)
        ELSE ENABLED (T_Marker \/ T_Throw \/ T_Done)

\* a call leaves the mutex as it found it, whether it returns or throws;
\* run_one() and update() have unlocked it when they leave the scope of
\* their lock_guard
C15_Step ==
    /\ (AddObject \/ ClearObjects \/ RemoveGeometry) => m_frameAccess' = m_frameAccess
    /\ (pcT # "idle" /\ pcT' = "idle") => m_frameAccess' # "tick"
    /\ (pcU \in DriverLocked /\ pcU' \notin DriverLocked) => m_frameAccess' = "free"

\* C15: no thread asks for m_frameAccess while it holds it; every operation
\* that locks it unlocks it on every way out, run_one() throwing for an
\* unsupported configuration and add_object throwing for a bad id or handle
\* included; so update() and run_one() are never both waiting for it forever.
C15_NoDeadlockOnFrameAccess ==
    /\ [](C15_Scopes /\ C15_HolderRuns)
    /\ [][C15_Step]_vars

\* update() has locked the mutex again after a run_one() threw for an
\* unsupported configuration and an add_object threw
C15_Witness ==
    /\ tickResult = "unsupported" /\ pcT = "idle"
    /\ thrown # "none"
    /\ m_frameAccess = "update" /\ pcU = "record"


\* ---- C16
\* the buffers the save threads were handed
DetachedBuffers ==
    {m_saveRecordingThreads[i].save_fbbP : i \in 1..Len(m_saveRecordingThreads)}
        \cup {m_saveRecordingThreads[i].save_KUKAiiwaFusionTrackMessageBufferP :
                  i \in 1..Len(m_saveRecordingThreads)}

C16_State ==
    \A i \in 1..Len(m_saveRecordingThreads) :
        LET t == m_saveRecordingThreads[i]
            held == {t.save_fbbP, t.save_KUKAiiwaFusionTrackMessageBufferP} \ {NULL}
        IN  /\ held \cap ActiveBuffers = {}
            /\ held \subseteq DOMAIN heap
            /\ \A j \in 1..Len(m_saveRecordingThreads) :
                  j # i => held \cap {m_saveRecordingThreads[j].save_fbbP,
                                       m_saveRecordingThreads[j].save_KUKAiiwaFusionTrackMessageBufferP} = {}

\* no step of update(), of a call or of another save thread changes what a
\* detached buffer holds
C16_Step ==
    \A b \in DetachedBuffers \ {NULL} : b \in DOMAIN heap' /\ heap'[b] = heap[b]

\* C16: a buffer save_recording() detached belongs to one save thread only:
\* in no reachable state is its builder or message vector also the plugin's
\* active one or another save thread's, and nothing update() appends and no
\* other save thread touches it, however the save threads and update()
\* interleave.
C16_DetachedBufferHasOneOwner == [](C16_State) /\ [][C16_Step]_vars

\* two save threads, neither run yet, each with a buffer of frames, while
\* update() is appending to the active buffer
C16_Witness ==
    /\ Len(m_saveRecordingThreads) = 2
    /\ \A i \in 1..2 : /\ m_saveRecordingThreads[i].state = "running"
                        /\ m_saveRecordingThreads[i].expected # <<>>
    /\ pcU = "swap" /\ session # <<>>

\* ---- C17
\* C17: save_recording(), called in any reachable state, also before a frame
\* was ever recorded and right after clear_recording(), hands its save thread
\* a builder and a message vector that are not null, so that no save thread
\* dereferences a null pointer, and leaves a new empty active buffer.
C17_SaveHandsOverPresentBuffer ==
    /\ [](aborted # "null_dereference")
    /\ [][SaveRecording =>
            LET t == m_saveRecordingThreads'[Len(m_saveRecordingThreads')]
            IN  /\ t.save_fbbP # NULL
                /\ t.save_KUKAiiwaFusionTrackMessageBufferP # NULL
                /\ m_logFileBufferBuilderP' # NULL
                /\ heap'[m_logFileBufferBuilderP'] = EmptyBuffer]_vars


\* ---- C18
\* the number of the frame run_one() would read as current
CurrentSeq == IF m_receivedFrame = NULL THEN 0 ELSE frames[m_receivedFrame].seq

\* the frames that have a record: in the active buffer or in a detached one
Recorded ==
    {session[k] : k \in 1..Len(session)}
        \cup UNION {{m_saveRecordingThreads[i].expected[k] :
                         k \in 1..Len(m_saveRecordingThreads[i].expected)} :
                     i \in 1..Len(m_saveRecordingThreads)}

\* what a thread other than update() can see when it holds or takes the
\* mutex: every frame that has a record is or was the current one, and
\* update() is not between its append and its swap
C18_State ==
    m_frameAccess # "update" =>
        /\ \A f \in Recorded : f <= CurrentSeq
        /\ pcU \notin {"record", "swap"}

\* the append records the frame that is about to become current, under the
\* mutex, and the swap is update()'s next step under the same lock
C18_Step ==
    /\ Len(session') > Len(session) =>
          /\ m_frameAccess = "update" /\ m_frameAccess' = "update"
          /\ session' = Append(session, frames[m_nextState].seq)
          /\ frames[m_nextState].seq = CurrentSeq + 1
          /\ pcU = "record" /\ pcU' = "swap"
    /\ CurrentSeq' # CurrentSeq =>
          /\ m_frameAccess = "update" /\ m_frameAccess' = "free"
          /\ pcU = "swap"
          /\ CurrentSeq' = CurrentSeq + 1

\* C18: in an iteration of update() the record of the frame just received
\* is appended (when m_isRecording is found set) and then the frame is made
\* current by the swap, in that order and under one lock_guard: run_one(),
\* save_recording() and clear_recording() never see the frame current with
\* its append still to come, nor its record appended with the frame not
\* current.
C18_AppendAndSwapAreOneSection == [](C18_State) /\ [][C18_Step]_vars

\* run_one() is in its loop over the second frame, whose record is the last
\* of the two in the active buffer
C18_Witness ==
    /\ pcT = "markers" /\ m_frameAccess = "tick"
    /\ Len(session) = 2 /\ session[2] = CurrentSeq
    /\ CurrentSeq = 2


\* ---- C19
\* run_one() is past its BOOST_VERIFY only with both frames and the device
\* present, and update() is at its append only with the device and
\* m_nextState present
C19_State ==
    /\ aborted # "assertion_failed"
    /\ pcT \in {"markers", "throwing"} =>
          /\ m_frameAccess = "tick"
          /\ m_receivedFrame # NULL /\ m_nextState # NULL /\ opticalTrackerP
    /\ pcU \in {"record", "swap"} =>
          /\ m_frameAccess = "update"
          /\ m_nextState # NULL /\ opticalTrackerP

\* a step that appends a record leaves the builder and its vector present
C19_Step ==
    Len(session') > Len(session) =>
        /\ m_logFileBufferBuilderP' # NULL
        /\ m_KUKAiiwaFusionTrackMessageBufferP' # NULL
        /\ opticalTrackerP /\ m_nextState # NULL

\* C19: the BOOST_VERIFY of run_one() (line 216) and the three of update()
\* (lines 359-361) never fail, whatever the interleaving of the connecting
\* block of update() with run_one() and with start_recording(),
\* stop_recording(), save_recording() and clear_recording().
C19_InitialisationAssertionsHold == [](C19_State) /\ [][C19_Step]_vars

\* run_one() is past its assertion while the active buffer, emptied once by
\* save_recording(), holds a record again
C19_Witness ==
    /\ pcT = "markers" /\ connectOutcome = "ok"
    /\ Len(session) = 1 /\ Cardinality(appended) = 2
    /\ m_logFileBufferBuilderP # NULL


\* ---- C20
\* the frames serialised in buffer ptr
FramesIn(ptr) == {RecordsOf(ptr)[k] : k \in 1..Len(RecordsOf(ptr))}

\* no buffer, active or moved into a save lambda, and no file written holds
\* a record that clear_recording() destroyed
C20_State ==
    /\ FramesIn(m_KUKAiiwaFusionTrackMessageBufferP) \cap discarded = {}
    /\ \A i \in 1..Len(m_saveRecordingThreads) :
          LET t == m_saveRecordingThreads[i]
          IN  /\ FramesIn(t.save_KUKAiiwaFusionTrackMessageBufferP) \cap discarded = {}
              /\ t.state = "done" =>
                    \A k \in 1..Len(t.file[1].states) :
                        t.file[1].states[k].seq \notin discarded

\* what a call of clear_recording() changes and leaves alone
C20_Step ==
    ClearRecording =>
        /\ m_logFileBufferBuilderP' = NULL
        /\ m_KUKAiiwaFusionTrackMessageBufferP' = NULL
        /\ discarded' = discarded \cup FramesIn(m_KUKAiiwaFusionTrackMessageBufferP)
        /\ m_saveRecordingThreads' = m_saveRecordingThreads
        /\ \A b \in DetachedBuffers \ {NULL} : b \in DOMAIN heap' /\ heap'[b] = heap[b]
        /\ m_receivedFrame' = m_receivedFrame /\ m_nextState' = m_nextState
        /\ frames' = frames
        /\ m_geometryIDToVrepMotionConfigMap' = m_geometryIDToVrepMotionConfigMap
        /\ m_isRecording' = m_isRecording

\* C20: clear_recording() destroys the active buffer without saving it: no
\* record appended before the call is in the buffer moved into any later
\* save lambda or in the file it writes; the call starts no save thread and
\* leaves m_receivedFrame, m_nextState, the frames, the configuration map,
\* m_isRecording and the buffers already moved into save lambdas unchanged.
C20_ClearDiscardsWithoutSaving == [](C20_State) /\ [][C20_Step]_vars

\* a record was destroyed by clear_recording() and a save thread started
\* afterwards has written a file with a later record
C20_Witness ==
    /\ discarded # {}
    /\ \E i \in 1..Len(m_saveRecordingThreads) :
          LET t == m_saveRecordingThreads[i]
          IN  /\ t.state = "done" /\ Len(t.expected) >= 1
              /\ \A f \in discarded : f < t.expected[1]

====
